---- MODULE Spec2Model ----
(***************************************************************************)
(* Model of src/cloud_provider/service.rs: the Service base contract, the  *)
(* StatelessService / StatefulService exec_action dispatchers and the      *)
(* ServiceError conversions.                                               *)
(*                                                                         *)
(* A service is an immutable value (every method takes &self).  Each       *)
(* action of the model is one complete call of one method on it; the call  *)
(* leaves behind its inputs (arg), the methods and host queries it made   *)
(* (calls) and the value it returned (ret).  Capability methods are        *)
(* implemented by the concrete service: their result is an input.          *)
(***************************************************************************)
EXTENDS Integers, Sequences, FiniteSets, TLC

\* ------------------------------------------------------------------ bounds
NumIds == 2
NumPayloads == 2
NumPorts == 2
NumTargets == 2

\* ------------------------------------------------------- Option and Result
None == {}
Some(x) == {x}

\* ------------------------------------------------------------ ServiceError
OnCreateFailed == [variant |-> "OnCreateFailed", payload |-> ""]
CheckFailed == [variant |-> "CheckFailed", payload |-> ""]
Cmd(e) == [variant |-> "Cmd", payload |-> e]
Io(e) == [variant |-> "Io", payload |-> e]
NotEnoughResources(s) == [variant |-> "NotEnoughResources", payload |-> s]
Unexpected(s) == [variant |-> "Unexpected", payload |-> s]

\* the opaque wrapped error values and the free-text reasons
IoErrors == {"io error " \o ToString(i) : i \in 1..NumPayloads}
CmdErrors == {"cmd error " \o ToString(i) : i \in 1..NumPayloads}
Reasons == {"reason " \o ToString(i) : i \in 1..NumPayloads}

ServiceError ==
    {OnCreateFailed, CheckFailed}
        \cup {Cmd(e) : e \in CmdErrors}
        \cup {Io(e) : e \in IoErrors}
        \cup {NotEnoughResources(s) : s \in Reasons}
        \cup {Unexpected(s) : s \in Reasons}

\* Result<(), ServiceError>
Ok == [ok |-> TRUE, err |-> None]
Err(e) == [ok |-> FALSE, err |-> Some(e)]
Results == {Ok} \cup {Err(e) : e \in ServiceError}

\* ------------------------------------------------------------------ enums
Action == {"Create", "Pause", "Delete", "Nothing"}
DatabaseType == {"PostgreSQL", "MongoDB", "MySQL"}
\* ServiceType: the tag and, for Database, the nested DatabaseType
ServiceType ==
    {[tag |-> t, db |-> None] : t \in {"Application", "ExternalService", "Router"}}
        \cup {[tag |-> "Database", db |-> Some(d)] : d \in DatabaseType}

\* the composite contract a variant extends: Application, ExternalService and
\* Router are StatelessService, Database is StatefulService
TraitOf(service_type) ==
    IF service_type.tag = "Database" THEN "StatefulService" ELSE "StatelessService"

Ids == {"id" \o ToString(i) : i \in 1..NumIds}
\* private_port() is an Option<u16>
Ports == {8079 + i : i \in 1..NumPorts}
DeploymentTarget == {"target" \o ToString(i) : i \in 1..NumTargets}
Ips == {"127.0.0.1", "10.0.0.7"}

\* what the accessors of a Service return
Services ==
    {[trait |-> TraitOf(st),
      action |-> a,
      service_type |-> st,
      id |-> i,
      name |-> "name of " \o i,
      version |-> "1.0",
      private_port |-> pp,
      total_cpus |-> "250m",
      total_ram_in_mib |-> 512,
      total_instances |-> 1] :
        st \in ServiceType, a \in Action, i \in Ids,
        pp \in {None} \cup {Some(p) : p \in Ports}}

\* Environment: the fields and namespace() that default_tera_context reads
Environments ==
    {[id |-> "env1",
      owner_id |-> "owner1",
      project_id |-> "project1",
      organization_id |-> "org1",
      namespace |-> "project1-env1"]}

\* Kubernetes: region() and name()
Clusters == {[name |-> "cluster1", region |-> "region1"]}

VARIABLES
    svc,          \* the service: what its accessor methods return
    environment,  \* the Environment the service is deployed in
    kubernetes,   \* the Kubernetes cluster it is deployed on
    op,           \* the function that was called last ("new" after construction)
    arg,          \* the inputs of that call, the state of the host included
    calls,        \* the methods and host queries the call made, in order
    ret           \* the value the call returned

vars == <<svc, environment, kubernetes, op, arg, calls, ret>>

Call(m, t, r) == [method |-> m, target |-> t, returned |-> r]

\* ------------------------------------------------------------- exec_action
\* r is the result of the capability method when it is called with target t

\* variant: the Delete arm dispatches to on_pause
exec_action_wrong_arm(action, t, r) ==
    CASE action = "Create" -> [calls |-> <<Call("on_create", t, r)>>, ret |-> r]
      [] action = "Delete" -> [calls |-> <<Call("on_pause", t, r)>>, ret |-> r]
      [] action = "Pause" -> [calls |-> <<Call("on_pause", t, r)>>, ret |-> r]
      [] action = "Nothing" -> [calls |-> <<>>, ret |-> Ok]

\* variant: the dispatcher verifies a successful on_create with on_create_check
exec_action_verifying(action, t, r) ==
    CASE action = "Create" ->
            [calls |-> IF r.ok
                       THEN <<Call("on_create", t, r), Call("on_create_check", t, Ok)>>
                       ELSE <<Call("on_create", t, r)>>,
             ret |-> r]
      [] action = "Delete" -> [calls |-> <<Call("on_delete", t, r)>>, ret |-> r]
      [] action = "Pause" -> [calls |-> <<Call("on_pause", t, r)>>, ret |-> r]
      [] action = "Nothing" -> [calls |-> <<>>, ret |-> Ok]

\* variant: the dispatcher compensates a failed on_<op> with on_<op>_error
exec_action_compensating(action, t, r) ==
    LET triad(m) ==
            [calls |-> IF r.ok
                       THEN <<Call(m, t, r)>>
                       ELSE <<Call(m, t, r), Call(m \o "_error", t, Ok)>>,
             ret |-> r]
    IN  CASE action = "Create" -> triad("on_create")
          [] action = "Delete" -> triad("on_delete")
          [] action = "Pause" -> triad("on_pause")
          [] action = "Nothing" -> [calls |-> <<>>, ret |-> Ok]

\* variant: a failure of on_pause is swallowed into success
exec_action_swallowing(action, t, r) ==
    CASE action = "Create" -> [calls |-> <<Call("on_create", t, r)>>, ret |-> r]
      [] action = "Delete" -> [calls |-> <<Call("on_delete", t, r)>>, ret |-> r]
      [] action = "Pause" -> [calls |-> <<Call("on_pause", t, r)>>, ret |-> Ok]
      [] action = "Nothing" -> [calls |-> <<>>, ret |-> Ok]

StatelessService_exec_action(action, t, r) ==
    CASE action = "Create" -> [calls |-> <<Call("on_create", t, r)>>, ret |-> r]
      [] action = "Delete" -> [calls |-> <<Call("on_delete", t, r)>>, ret |-> r]
      [] action = "Pause" -> [calls |-> <<Call("on_pause", t, r)>>, ret |-> r]
      [] action = "Nothing" -> [calls |-> <<>>, ret |-> Ok]

StatefulService_exec_action(action, t, r) ==
    CASE action = "Create" -> [calls |-> <<Call("on_create", t, r)>>, ret |-> r]
      [] action = "Delete" -> [calls |-> <<Call("on_delete", t, r)>>, ret |-> r]
      [] action = "Pause" -> [calls |-> <<Call("on_pause", t, r)>>, ret |-> r]
      [] action = "Nothing" -> [calls |-> <<>>, ret |-> Ok]

\* ---------------------------------------------------------------- is_valid
binaries == <<"kubectl", "helm", "terraform", "aws-iam-authenticator">>

\* crate::cmd::utilities::does_binary_exist, on a host where `host` is present
does_binary_exist(binary, host) == binary \in host

RECURSIVE is_valid_from(_, _, _)
\* the for loop of is_valid, from binaries[i] on; probes = the queries so far
is_valid_from(i, host, probes) ==
    IF i > Len(binaries)
    THEN [calls |-> probes, ret |-> Ok]
    ELSE LET binary == binaries[i]
             found == does_binary_exist(binary, host)
             seen == Append(probes, Call("does_binary_exist", binary, found))
         IN  IF ~found
             THEN [calls |-> seen, ret |-> Err(Unexpected(binary \o " binary not found"))]
             ELSE is_valid_from(i + 1, host, seen)

\* variant: every binary is probed and the first missing one is reported
is_valid_probing_all(host) ==
    LET probes == [i \in DOMAIN binaries |->
                      Call("does_binary_exist", binaries[i], does_binary_exist(binaries[i], host))]
        missing == {i \in DOMAIN binaries : ~does_binary_exist(binaries[i], host)}
    IN  IF missing = {}
        THEN [calls |-> probes, ret |-> Ok]
        ELSE LET first == CHOOSE i \in missing : \A j \in missing : i <= j
             IN  [calls |-> probes,
                  ret |-> Err(Unexpected(binaries[first] \o " binary not found"))]

is_valid(host) == is_valid_from(1, host, <<>>)

\* ------------------------------------------------------------ is_listening
\* format!("{}:{}", ip, private_port)
Address(ip, port) == ip \o ":" \o ToString(port)

Addresses == {Address(ip, p) : ip \in Ips, p \in Ports}

\* the hosts the probe may face: nothing listens, or one address does
Listeners == {{}} \cup {{a} : a \in Addresses}

\* TcpStream::connect(addr).is_ok(), when `listeners` accept connections
TcpStream_connect(addr, listeners) == addr \in listeners

\* variant: a service without a private port is reported as listening
is_listening_without_port(private_port, ip, listeners) ==
    IF private_port = None
    THEN [calls |-> <<>>, ret |-> TRUE]
    ELSE LET port == CHOOSE p \in private_port : TRUE
             addr == Address(ip, port)
             connected == TcpStream_connect(addr, listeners)
         IN  [calls |-> <<Call("TcpStream::connect", addr, connected)>>,
              ret |-> IF connected THEN TRUE ELSE FALSE]

is_listening(private_port, ip, listeners) ==
    IF private_port = None
    THEN [calls |-> <<>>, ret |-> FALSE]
    ELSE LET port == CHOOSE p \in private_port : TRUE
             addr == Address(ip, port)
             connected == TcpStream_connect(addr, listeners)
         IN  [calls |-> <<Call("TcpStream::connect", addr, connected)>>,
              ret |-> IF connected THEN TRUE ELSE FALSE]

\* ---------------------------------------------------- default_tera_context
TeraContext_new == [k \in {} |-> ""]

insert(context, key, value) ==
    [k \in DOMAIN context \cup {key} |-> IF k = key THEN value ELSE context[k]]

\* variant: private_port is inserted unconditionally, 0 standing for none
default_tera_context_always_port(s, k, e) ==
    LET c1 == insert(TeraContext_new, "id", s.id)
        c2 == insert(c1, "owner_id", e.owner_id)
        c3 == insert(c2, "project_id", e.project_id)
        c4 == insert(c3, "organization_id", e.organization_id)
        c5 == insert(c4, "environment_id", e.id)
        c6 == insert(c5, "region", k.region)
        c7 == insert(c6, "name", s.name)
        c8 == insert(c7, "namespace", e.namespace)
        c9 == insert(c8, "cluster_name", k.name)
        c10 == insert(c9, "total_cpus", s.total_cpus)
        c11 == insert(c10, "total_ram_in_mib", s.total_ram_in_mib)
        c12 == insert(c11, "total_instances", s.total_instances)
        c13 == insert(c12, "is_private_port", s.private_port # None)
        c14 == insert(c13, "private_port",
                      IF s.private_port # None
                      THEN CHOOSE p \in s.private_port : TRUE
                      ELSE 0)
    IN  insert(c14, "version", s.version)

default_tera_context(s, k, e) ==
    LET c1 == insert(TeraContext_new, "id", s.id)
        c2 == insert(c1, "owner_id", e.owner_id)
        c3 == insert(c2, "project_id", e.project_id)
        c4 == insert(c3, "organization_id", e.organization_id)
        c5 == insert(c4, "environment_id", e.id)
        c6 == insert(c5, "region", k.region)
        c7 == insert(c6, "name", s.name)
        c8 == insert(c7, "namespace", e.namespace)
        c9 == insert(c8, "cluster_name", k.name)
        c10 == insert(c9, "total_cpus", s.total_cpus)
        c11 == insert(c10, "total_ram_in_mib", s.total_ram_in_mib)
        c12 == insert(c11, "total_instances", s.total_instances)
        c13 == insert(c12, "is_private_port", s.private_port # None)
        c14 == IF s.private_port # None
               THEN insert(c13, "private_port", CHOOSE p \in s.private_port : TRUE)
               ELSE c13
    IN  insert(c14, "version", s.version)

\* ---------------------------------------------------------- progress_scope
\* variant: an external service is reported under the Application scope
progress_scope_external_as_application(s) ==
    CASE s.service_type.tag = "Application" -> [tag |-> "Application", id |-> s.id]
      [] s.service_type.tag = "ExternalService" -> [tag |-> "Application", id |-> s.id]
      [] s.service_type.tag = "Database" -> [tag |-> "Database", id |-> s.id]
      [] s.service_type.tag = "Router" -> [tag |-> "Router", id |-> s.id]

progress_scope(s) ==
    CASE s.service_type.tag = "Application" -> [tag |-> "Application", id |-> s.id]
      [] s.service_type.tag = "ExternalService" -> [tag |-> "ExternalService", id |-> s.id]
      [] s.service_type.tag = "Database" -> [tag |-> "Database", id |-> s.id]
      [] s.service_type.tag = "Router" -> [tag |-> "Router", id |-> s.id]

\* ------------------------------------------------------------- conversions
\* variant: the I/O error is reported through the catch-all variant
From_io_Error_as_unexpected(err) == Unexpected(err)

From_io_Error(err) == Io(err)

From_CmdError(err) == Cmd(err)

\* crate::transaction::CommitError: the kinds that carry a service error, the
\* one that carries the error of an invalid service, and the remaining kinds
EnvironmentKinds ==
    {"DeleteEnvironment", "PauseEnvironment", "DeployEnvironment",
     "DeleteKubernetes", "CreateKubernetes"}
OtherKinds == {"BuildImage", "PushImage"}
NoServiceError == [variant |-> "", payload |-> ""]

CommitError ==
    [kind : EnvironmentKinds, attached : ServiceError \cup {NoServiceError}]
        \cup [kind : {"NotValidService"}, attached : ServiceError]
        \cup [kind : OtherKinds, attached : {NoServiceError}]

\* Option::from(e) on the payload of a transaction-phase failure
Option_from(e) == IF e = NoServiceError THEN None ELSE Some(e)

\* variant: CreateKubernetes is missing from the first arm
From_CommitError_dropping_arm(err) ==
    CASE err.kind \in EnvironmentKinds \ {"CreateKubernetes"} -> Option_from(err.attached)
      [] err.kind = "NotValidService" -> Some(err.attached)
      [] OTHER -> None

From_CommitError(err) ==
    CASE err.kind \in EnvironmentKinds -> Option_from(err.attached)
      [] err.kind = "NotValidService" -> Some(err.attached)
      [] OTHER -> None

\* ------------------------------------------------------------------- state
Init ==
    /\ svc \in Services
    /\ environment \in Environments
    /\ kubernetes \in Clusters
    /\ op = "new"
    /\ arg = <<>>
    /\ calls = <<>>
    /\ ret = <<>>

\* every method takes &self, &dyn Kubernetes and &Environment
Borrowed == UNCHANGED <<svc, environment, kubernetes>>

StatelessExecAction ==
    /\ svc.trait = "StatelessService"
    /\ \E t \in DeploymentTarget, r \in Results :
        LET out == StatelessService_exec_action(svc.action, t, r) IN
        /\ arg' = [target |-> t, result |-> r]
        /\ calls' = out.calls
        /\ ret' = out.ret
    /\ op' = "exec_action"
    /\ Borrowed

StatefulExecAction ==
    /\ svc.trait = "StatefulService"
    /\ \E t \in DeploymentTarget, r \in Results :
        LET out == StatefulService_exec_action(svc.action, t, r) IN
        /\ arg' = [target |-> t, result |-> r]
        /\ calls' = out.calls
        /\ ret' = out.ret
    /\ op' = "exec_action"
    /\ Borrowed

IsValid ==
    /\ \E host \in SUBSET {binaries[i] : i \in DOMAIN binaries} :
        LET out == is_valid(host) IN
        /\ arg' = [host |-> host]
        /\ calls' = out.calls
        /\ ret' = out.ret
    /\ op' = "is_valid"
    /\ Borrowed

IsListening ==
    /\ \E ip \in Ips, listeners \in Listeners :
        LET out == is_listening(svc.private_port, ip, listeners) IN
        /\ arg' = [ip |-> ip, listeners |-> listeners]
        /\ calls' = out.calls
        /\ ret' = out.ret
    /\ op' = "is_listening"
    /\ Borrowed

DefaultTeraContext ==
    /\ ret' = default_tera_context(svc, kubernetes, environment)
    /\ arg' = <<>>
    /\ calls' = <<>>
    /\ op' = "default_tera_context"
    /\ Borrowed

ProgressScope ==
    /\ ret' = progress_scope(svc)
    /\ arg' = <<>>
    /\ calls' = <<>>
    /\ op' = "progress_scope"
    /\ Borrowed

FromIoError ==
    /\ \E err \in IoErrors :
        /\ arg' = [err |-> err]
        /\ ret' = From_io_Error(err)
    /\ calls' = <<>>
    /\ op' = "from_io_error"
    /\ Borrowed

FromCmdError ==
    /\ \E err \in CmdErrors :
        /\ arg' = [err |-> err]
        /\ ret' = From_CmdError(err)
    /\ calls' = <<>>
    /\ op' = "from_cmd_error"
    /\ Borrowed

FromCommitError ==
    /\ \E err \in CommitError :
        /\ arg' = [err |-> err]
        /\ ret' = From_CommitError(err)
    /\ calls' = <<>>
    /\ op' = "from_commit_error"
    /\ Borrowed

Next ==
    \/ StatelessExecAction
    \/ StatefulExecAction
    \/ IsValid
    \/ IsListening
    \/ DefaultTeraContext
    \/ ProgressScope
    \/ FromIoError
    \/ FromCmdError
    \/ FromCommitError

Spec == Init /\ [][Next]_vars

\* ------------------------------------------------------------- properties
Methods == [i \in DOMAIN calls |-> calls[i].method]

Operations ==
    {"create", "pause", "delete", "backup", "restore", "clone", "upgrade", "downgrade"}
CapabilityMethods == {"on_" \o o : o \in Operations}
CheckMethods == {"on_" \o o \o "_check" : o \in Operations}
ErrorMethods == {"on_" \o o \o "_error" : o \in Operations}

\* C1: one call of exec_action, on a stateless or a stateful service, invokes
\* exactly the capability method its Action names, once, and no other:
\* Create -> on_create, Pause -> on_pause, Delete -> on_delete; Nothing invokes
\* no method at all and returns success.
C1_ExecActionDispatch ==
    op = "exec_action" =>
        /\ svc.action = "Create" => Methods = <<"on_create">>
        /\ svc.action = "Pause" => Methods = <<"on_pause">>
        /\ svc.action = "Delete" => Methods = <<"on_delete">>
        /\ svc.action = "Nothing" => calls = <<>> /\ ret = Ok
        /\ \A i \in DOMAIN calls : calls[i].target = arg.target

C1_Witness ==
    /\ op = "exec_action"
    /\ svc.trait = "StatefulService"
    /\ svc.action = "Delete"
    /\ Methods = <<"on_delete">>

\* C2: whatever the Action and whether the dispatched on_<op> succeeds or
\* fails, exec_action invokes no on_<op>_check and no on_<op>_error method.
C2_ThinRouter ==
    op = "exec_action" =>
        \A i \in DOMAIN calls : calls[i].method \notin CheckMethods \cup ErrorMethods

C2_Witness ==
    /\ op = "exec_action"
    /\ svc.action = "Create"
    /\ Len(calls) = 1
    /\ ~calls[1].returned.ok

\* C3: exec_action returns exactly what the capability method it dispatched to
\* returned, the same error (variant and payload) or success, and returns
\* success for Action::Nothing.
C3_ResultPropagated ==
    op = "exec_action" =>
        IF svc.action = "Nothing" THEN ret = Ok ELSE ret = arg.result

C3_Witness ==
    /\ op = "exec_action"
    /\ svc.action = "Pause"
    /\ ret.ok = FALSE
    /\ \E e \in ret.err : e.variant = "Cmd"

\* C4: is_valid succeeds iff kubectl, helm, terraform and aws-iam-authenticator
\* are all present; otherwise it returns Unexpected("<binary> binary not found")
\* for the first absent one in that order, and probes no binary after it.
C4_Order == <<"kubectl", "helm", "terraform", "aws-iam-authenticator">>

C4_Message ==
    <<"kubectl binary not found", "helm binary not found",
      "terraform binary not found", "aws-iam-authenticator binary not found">>

C4_IsValidFirstMissing ==
    op = "is_valid" =>
        LET absent == {i \in 1..4 : C4_Order[i] \notin arg.host} IN
        IF absent = {}
        THEN /\ ret = Ok
             /\ Methods = [i \in 1..4 |-> "does_binary_exist"]
             /\ [i \in DOMAIN calls |-> calls[i].target] = C4_Order
        ELSE LET first == CHOOSE i \in absent : \A j \in absent : i <= j IN
             /\ ret = [ok |-> FALSE,
                       err |-> {[variant |-> "Unexpected", payload |-> C4_Message[first]]}]
             /\ [i \in DOMAIN calls |-> calls[i].target] = SubSeq(C4_Order, 1, first)

C4_Witness ==
    /\ op = "is_valid"
    /\ arg.host = {"kubectl", "terraform"}
    /\ ret = [ok |-> FALSE,
              err |-> {[variant |-> "Unexpected", payload |-> "helm binary not found"]}]
    /\ Len(calls) = 2

\* C5: the conversion of a CommitError into Option<ServiceError> is total: a
\* DeleteEnvironment, PauseEnvironment, DeployEnvironment, DeleteKubernetes or
\* CreateKubernetes error with an attached service error yields that error,
\* NotValidService yields a present error, every other kind yields None.
C5_CommitErrorMapping ==
    op = "from_commit_error" =>
        LET err == arg.err IN
        /\ Cardinality(ret) <= 1
        /\ ret \subseteq ServiceError
        /\ (/\ err.kind \in {"DeleteEnvironment", "PauseEnvironment", "DeployEnvironment",
                             "DeleteKubernetes", "CreateKubernetes"}
            /\ err.attached \in ServiceError) => ret = {err.attached}
        /\ err.kind = "NotValidService" => ret # {}
        /\ err.kind \in OtherKinds => ret = {}

C5_Witness ==
    /\ op = "from_commit_error"
    /\ arg.err.kind = "CreateKubernetes"
    /\ arg.err.attached = [variant |-> "CheckFailed", payload |-> ""]
    /\ ret = {arg.err.attached}

\* C6: progress_scope maps Application to Application, ExternalService to
\* ExternalService, Router to Router and Database(x) to Database for every
\* DatabaseType x, and the scope carries exactly the service's id.
C6_ProgressScope ==
    op = "progress_scope" =>
        /\ ret.id = svc.id
        /\ svc.service_type.db = {} => ret.tag = svc.service_type.tag
        /\ svc.service_type.db # {} => ret.tag = "Database"
        /\ ret.tag \in {"Application", "ExternalService", "Router", "Database"}

C6_Witness ==
    /\ op = "progress_scope"
    /\ svc.service_type.db = {"MongoDB"}
    /\ ret.tag = "Database"

\* C7: is_listening returns a boolean for every input: false, with no
\* connection attempt, when private_port is absent; otherwise the outcome of
\* one single connection attempt to address:private_port.
C7_IsListening ==
    op = "is_listening" =>
        /\ ret \in BOOLEAN
        /\ Len(calls) <= 1
        /\ svc.private_port = {} => ret = FALSE /\ calls = <<>>
        /\ \A p \in svc.private_port :
            /\ Methods = <<"TcpStream::connect">>
            /\ calls[1].target = arg.ip \o ":" \o ToString(p)
            /\ ret = (calls[1].target \in arg.listeners)

C7_Witness ==
    /\ op = "is_listening"
    /\ svc.private_port = {8080}
    /\ arg.ip = "127.0.0.1"
    /\ arg.listeners = {"127.0.0.1:8080"}
    /\ ret = TRUE

\* C8: in the context default_tera_context returns, is_private_port equals
\* "private_port() is present", the key private_port is present iff
\* is_private_port is true and then holds the service's private port, the other
\* required keys are always present, and the call changes neither the service,
\* the cluster nor the environment.
C8_RequiredKeys ==
    {"id", "owner_id", "project_id", "organization_id", "environment_id", "region",
     "name", "namespace", "cluster_name", "total_cpus", "total_ram_in_mib",
     "total_instances", "is_private_port", "version"}

C8_TeraContext ==
    [][op' = "default_tera_context" =>
        /\ C8_RequiredKeys \subseteq DOMAIN ret'
        /\ ret'["is_private_port"] = (svc.private_port # {})
        /\ ("private_port" \in DOMAIN ret') <=> (ret'["is_private_port"] = TRUE)
        /\ "private_port" \in DOMAIN ret' => ret'["private_port"] \in svc.private_port
        /\ svc' = svc
        /\ kubernetes' = kubernetes
        /\ environment' = environment]_vars

C8_Witness ==
    /\ op = "default_tera_context"
    /\ svc.private_port = {}
    /\ ret["is_private_port"] = FALSE
    /\ "private_port" \notin DOMAIN ret

\* C9 as stated: within a lifecycle operation the triad runs attempt ->
\* verify -> compensate, so on_<op>_error is invoked whenever on_<op> fails.
C9_ErrorHookOnFailure ==
    (op = "exec_action" /\ svc.action # "Nothing" /\ ~arg.result.ok) =>
        \E i \in DOMAIN calls :
            /\ i > 1
            /\ calls[i].method = calls[1].method \o "_error"

\* C9 amended: of the triad, exec_action runs the attempt step only; its
\* outcome is handed to the caller, and no verify or compensate step follows
\* it in the call, not even when the attempt failed.
C9_AttemptOnly ==
    (op = "exec_action" /\ svc.action # "Nothing") =>
        /\ Len(calls) = 1
        /\ calls[1].method \in CapabilityMethods
        /\ calls[1].returned = arg.result
        /\ ~arg.result.ok =>
            /\ calls[1].method \o "_error" \notin {calls[i].method : i \in DOMAIN calls}
            /\ ~ret.ok

C9_Witness ==
    /\ op = "exec_action"
    /\ svc.action = "Delete"
    /\ arg.result = [ok |-> FALSE, err |-> {[variant |-> "OnCreateFailed", payload |-> ""]}]
    /\ Methods = <<"on_delete">>

\* C10: every I/O error converts to ServiceError::Io wrapping exactly that
\* value and every command error to ServiceError::Cmd wrapping exactly that
\* value.
C10_LosslessConversions ==
    /\ op = "from_io_error" => ret = [variant |-> "Io", payload |-> arg.err]
    /\ op = "from_cmd_error" => ret = [variant |-> "Cmd", payload |-> arg.err]

C10_Witness ==
    /\ op = "from_io_error"
    /\ arg.err = "io error 2"
    /\ ret.variant = "Io"

====
